---- MODULE Spec2Model ----
(***************************************************************************)
(* fresh-atom (src/mod.ts): atom(initialValue) wraps one @preact/signals   *)
(* signal and exposes get, set and the signal itself; useAtom(atom)        *)
(* returns [atom.signal.value, atom.set].                                  *)
(*                                                                         *)
(* The signal is the library primitive imported at src/mod.ts:1.  Its      *)
(* behaviour is modelled as @preact/signals implements it:                 *)
(*   - reading .value inside a tracking context (a component's render)     *)
(*     subscribes that context to the signal; outside one it only reads;   *)
(*   - writing .value stores the value and notifies the subscribers when   *)
(*     the written value is not identical (!==) to the stored one, and     *)
(*     does nothing when it is identical.                                  *)
(* A notified component is scheduled for a re-render (dirty); the host     *)
(* performs the re-render later, when no JavaScript is running.            *)
(*                                                                         *)
(* JavaScript is single-threaded: while an update function passed to set   *)
(* runs, the only operations that can happen are the ones that function    *)
(* issues itself.  The model keeps one update function in progress         *)
(* (running); a set with an update function issued from inside another     *)
(* update function is not modelled.                                        *)
(***************************************************************************)
EXTENDS Integers, Sequences, FiniteSets, TLC

VARIABLES
    sig,        \* sig[a]: the value stored in atom a's signal (src/mod.ts:44)
    pristine,   \* pristine[a]: the argument of atom(...) while a was never written
    targets,    \* targets[a]: the components subscribed to a's signal
    dirty,      \* the components scheduled for a re-render
    holder,     \* holder[c]: the setter useAtom handed to component c
    running,    \* the set(updateFn) call in progress, or NoFrame
    last        \* the most recent operation and what it returned

vars == <<sig, pristine, targets, dirty, holder, running, last>>

\* Numbers held by countAtom range over 0..MaxCount.
MaxCount == 2

------------------------------------------------------------------------------
\* Values.  One record shape for every JavaScript value the model handles.

Num(n) == [kind |-> "number", n |-> n, id |-> ""]
Fn(id) == [kind |-> "function", n |-> 0, id |-> id]
Pending(id) == [kind |-> "promise", n |-> 0, id |-> id]
Undefined == [kind |-> "undefined", n |-> 0, id |-> ""]

Atoms == {"countAtom", "asyncAtom"}

\* The update functions callers pass to set.
Inc == Fn("inc")          \* prev => prev + 1
Refetch == Fn("refetch")  \* prev => fetchB
Boom == Fn("boom")        \* prev => { throw }
UpdateFns == {Inc, Refetch, Boom}

\* The values of T callers store in each atom: numbers in countAtom; in
\* asyncAtom an async function or a pending computation.
TValues(a) ==
    IF a = "countAtom" THEN {Num(n) : n \in 0..MaxCount}
    ELSE {Fn("fetchA"), Fn("fetchB"), Pending("A")}

\* The update functions that type-check against each atom.
Updaters(a) == IF a = "countAtom" THEN {Inc, Boom} ELSE {Refetch, Boom}

SetArgs(a) == TValues(a) \cup Updaters(a)

\* typeof value
TypeOf(v) == v.kind

\* The outcome of calling function f with argument prev.
Call(f, prev) ==
    CASE f = Inc -> [kind |-> "return", value |-> Num(prev.n + 1)]
      [] f = Refetch -> [kind |-> "return", value |-> Fn("fetchB")]
      [] f = Boom -> [kind |-> "raise", value |-> Undefined]
      [] f = Fn("fetchA") -> [kind |-> "return", value |-> Pending("A")]
      [] f = Fn("fetchB") -> [kind |-> "return", value |-> Pending("B")]
      [] OTHER -> [kind |-> "raise", value |-> Undefined]

\* Inc is only called on a number below the bound.
CanCall(f, prev) == f = Inc => (prev.kind = "number" /\ prev.n < MaxCount)

------------------------------------------------------------------------------
\* Components.  Counter and Badge call useAtom(countAtom) in their render;
\* Loader calls asyncAtom.get() in its render.

Components == {"Counter", "Badge", "Loader"}

Body(c) ==
    IF c = "Loader" THEN [via |-> "get", atom |-> "asyncAtom"]
    ELSE [via |-> "useAtom", atom |-> "countAtom"]

NoContext == "none"
NoSetter == "none"
NoFrame == [atom |-> "none", by |-> "none", fn |-> Undefined, prev |-> Undefined, inner |-> Undefined]

\* What `last` records of an operation: who issued it (by: "app", a component
\* or "updateFn"), its argument, the value stored before it, what it returned,
\* how it ended, whether it changed the stored value, and, for a set call
\* that ran an update function, the last value that function itself wrote
\* to the same atom while it ran.
Op(op, a, by, arg, prev, ret, outcome, changed, inner) ==
    [op |-> op, atom |-> a, by |-> by, arg |-> arg, prev |-> prev, ret |-> ret,
     outcome |-> outcome, changed |-> changed, inner |-> inner]

------------------------------------------------------------------------------
\* The signal primitive.

\* signal(initialValue): the value a new signal holds.
SignalCreate(v) == v

\* A read that does not track its reader (signal.peek()).
TargetsAfterReadPeek(a, ctx) == targets

\* Reading sig.value in evaluation context ctx: the subscribers afterwards.
TargetsAfterRead(a, ctx) ==
    IF ctx \in Components THEN [targets EXCEPT ![a] = @ \cup {ctx}] ELSE targets

\* A read that resolves a stored function and keeps its result.
SigAfterReadLazy(a) ==
    IF TypeOf(sig[a]) = "function"
    THEN [sig EXCEPT ![a] = Call(sig[a], Undefined).value]
    ELSE sig

\* Reading sig.value: the stored values afterwards.
SigAfterRead(a) == sig

\* sig.value = v: the stored values afterwards.
SigAfterWrite(a, v) == [sig EXCEPT ![a] = v]

\* A write that notifies whether or not the value differs.
DirtyAfterWriteAlways(a, v) == dirty \cup targets[a]

\* sig.value = v: the components scheduled afterwards.
DirtyAfterWrite(a, v) == IF v /= sig[a] THEN dirty \cup targets[a] ELSE dirty

------------------------------------------------------------------------------
\* The atom.

\* A constructor that treats a function argument as a lazy initialiser.
AtomCreateLazy(v) == IF TypeOf(v) = "function" THEN Call(v, Undefined).value ELSE v

\* atom(initialValue)
AtomCreate(v) == SignalCreate(v)

\* get: () => sig.value
AtomGet(a) == sig[a]

\* A set that does not hold the thread while its update function runs.
IdleAlways == TRUE

\* No update function is running: the caller is the application, not an
\* update function in progress.
Idle == running = NoFrame

Init ==
    /\ \E c \in TValues("countAtom"), f \in {Fn("fetchA"), Pending("A")} :
          /\ sig = [a \in Atoms |-> IF a = "countAtom" THEN AtomCreate(c) ELSE AtomCreate(f)]
          /\ pristine = [a \in Atoms |-> IF a = "countAtom" THEN c ELSE f]
    /\ targets = [a \in Atoms |-> {}]
    /\ dirty = {}
    /\ holder = [c \in Components |-> NoSetter]
    /\ running = NoFrame
    /\ last = Op("init", "none", NoContext, Undefined, Undefined, Undefined, "none", FALSE, Undefined)

\* cell.get() called by the application outside any render.
Get(a) ==
    /\ Idle
    /\ sig' = SigAfterRead(a)
    /\ targets' = TargetsAfterRead(a, NoContext)
    /\ last' = Op("get", a, "app", Undefined, Undefined, AtomGet(a), "done", FALSE, Undefined)
    /\ UNCHANGED <<pristine, dirty, holder, running>>

\* A set without the typeof branch: every argument is stored as given.
InvokesNothing(value) == FALSE

\* typeof value === 'function'
InvokesUpdateFn(value) == TypeOf(value) = "function"

\* set(value), else branch: sig.value = value.
SetDirect(a, value, by) ==
    /\ sig' = SigAfterWrite(a, value)
    /\ dirty' = DirtyAfterWrite(a, value)
    /\ pristine' = [pristine EXCEPT ![a] = Undefined]
    /\ last' = Op("set", a, by, value, sig[a], Undefined, "done", value /= sig[a], Undefined)
    /\ UNCHANGED <<targets, holder, running>>

\* set(value), then branch, first half: sig.value is read and handed to the
\* update function, which starts running.
SetBegin(a, value, by) ==
    /\ CanCall(value, sig[a])
    /\ running' = [atom |-> a, by |-> by, fn |-> value, prev |-> sig[a], inner |-> Undefined]
    /\ pristine' = [pristine EXCEPT ![a] = Undefined]
    /\ last' = Op("set", a, by, value, sig[a], Undefined, "running", FALSE, Undefined)
    /\ UNCHANGED <<sig, targets, dirty, holder>>

\* cell.set(value) issued by `by` while no update function runs.
AtomSet(a, value, by) ==
    IF InvokesUpdateFn(value) THEN SetBegin(a, value, by) ELSE SetDirect(a, value, by)

\* cell.set(value) called by the application.
Set(a, value) ==
    /\ Idle
    /\ AtomSet(a, value, "app")

\* set(value), then branch, second half: the update function returned and its
\* result is assigned to sig.value.
FnReturn ==
    /\ running /= NoFrame
    /\ Call(running.fn, running.prev).kind = "return"
    /\ LET a == running.atom
           v == Call(running.fn, running.prev).value
       IN /\ sig' = SigAfterWrite(a, v)
          /\ dirty' = DirtyAfterWrite(a, v)
          /\ last' = Op("set", a, running.by, running.fn, running.prev, Undefined,
                        "done", v /= sig[a], running.inner)
    /\ running' = NoFrame
    /\ UNCHANGED <<pristine, targets, holder>>

\* A set that catches the error and resets the cell.
SigAfterRaiseReset(a) == [sig EXCEPT ![a] = Undefined]

\* The stored values after the update function raised: the assignment of
\* line 60 is never reached.
SigAfterRaise(a) == sig

\* set(value), then branch, second half: the update function raised; nothing
\* catches, the error reaches the caller of set.
FnRaise ==
    /\ running /= NoFrame
    /\ Call(running.fn, running.prev).kind = "raise"
    /\ sig' = SigAfterRaise(running.atom)
    /\ last' = Op("set", running.atom, running.by, running.fn, running.prev, Undefined,
                  "raised", FALSE, running.inner)
    /\ running' = NoFrame
    /\ UNCHANGED <<pristine, targets, dirty, holder>>

\* The running update function calls cell.get().
NestedGet(a) ==
    /\ running /= NoFrame
    /\ sig' = SigAfterRead(a)
    /\ targets' = TargetsAfterRead(a, NoContext)
    /\ last' = Op("get", a, "updateFn", Undefined, Undefined, AtomGet(a), "done", FALSE, Undefined)
    /\ UNCHANGED <<pristine, dirty, holder, running>>

\* The running update function calls cell.set(value) with a plain value.
NestedSet(a, value) ==
    /\ running /= NoFrame
    /\ ~InvokesUpdateFn(value)
    /\ sig' = SigAfterWrite(a, value)
    /\ dirty' = DirtyAfterWrite(a, value)
    /\ pristine' = [pristine EXCEPT ![a] = Undefined]
    /\ running' = IF a = running.atom THEN [running EXCEPT !.inner = value] ELSE running
    /\ last' = Op("set", a, "updateFn", value, sig[a], Undefined, "done", value /= sig[a], Undefined)
    /\ UNCHANGED <<targets, holder>>

\* A useAtom that returns the getter instead of calling it.
UseAtomGetter(a) == <<Fn("get"), a>>

\* useAtom(atom): [atom.signal.value, atom.set]; the setter is named by the
\* atom whose set it is.
UseAtom(a) == <<sig[a], a>>

\* The host renders component c: its body runs inside c's tracking context,
\* and whatever re-render was scheduled for c is thereby done.
Render(c) ==
    /\ Idle
    /\ LET a == Body(c).atom
       IN /\ sig' = SigAfterRead(a)
          /\ targets' = TargetsAfterRead(a, c)
          /\ IF Body(c).via = "useAtom"
             THEN /\ holder' = [holder EXCEPT ![c] = UseAtom(a)[2]]
                  /\ last' = Op("useAtom", a, c, Undefined, Undefined, UseAtom(a)[1],
                                "done", FALSE, Undefined)
             ELSE /\ holder' = holder
                  /\ last' = Op("get", a, c, Undefined, Undefined, AtomGet(a),
                                "done", FALSE, Undefined)
    /\ dirty' = dirty \ {c}
    /\ UNCHANGED <<pristine, running>>

\* An event handler of component c invokes the setter useAtom returned.
InvokeSetter(c, value) ==
    /\ Idle
    /\ holder[c] /= NoSetter
    /\ value \in SetArgs(holder[c])
    /\ AtomSet(holder[c], value, c)

\* The application writes the exposed signal: atom.signal.value = value.
SignalWrite(a, value) ==
    /\ Idle
    /\ sig' = SigAfterWrite(a, value)
    /\ dirty' = DirtyAfterWrite(a, value)
    /\ pristine' = [pristine EXCEPT ![a] = Undefined]
    /\ last' = Op("signal.value=", a, "app", value, sig[a], Undefined, "done",
                  value /= sig[a], Undefined)
    /\ UNCHANGED <<targets, holder, running>>

Next ==
    \/ \E a \in Atoms : Get(a)
    \/ \E a \in Atoms : \E value \in SetArgs(a) : Set(a, value)
    \/ FnReturn
    \/ FnRaise
    \/ \E a \in Atoms : NestedGet(a)
    \/ \E a \in Atoms : \E value \in TValues(a) : NestedSet(a, value)
    \/ \E c \in Components : Render(c)
    \/ \E c \in Components : \E value \in UNION {SetArgs(a) : a \in Atoms} : InvokeSetter(c, value)

\* The atom's own operations only: callers use get, set and useAtom.
Spec == Init /\ [][Next]_vars

\* Callers also use the signal the atom exposes.
NextExposed ==
    \/ Next
    \/ \E a \in Atoms : \E value \in TValues(a) : SignalWrite(a, value)

ExposedSpec == Init /\ [][NextExposed]_vars

\* An update function that was called finishes, and the host performs every
\* scheduled re-render: it runs as soon as the handler that scheduled it has
\* returned, however often handlers run.
RenderScheduled(c) == c \in dirty /\ Render(c)

FairSpec ==
    /\ Spec
    /\ WF_vars(FnReturn \/ FnRaise)
    /\ \A c \in Components : SF_vars(RenderScheduled(c))

------------------------------------------------------------------------------
\* Claims.

SetDone == last.op = "set" /\ last.outcome = "done"

\* C1 (as stated): after a completed set(w) with w a value of T, get()
\* returns w.
C1_SetValueThenGet ==
    (SetDone /\ last.arg \in TValues(last.atom)) => AtomGet(last.atom) = last.arg

\* C2: after a completed set(f) with an update function f that did not raise,
\* the cell holds f(v), v being the value the cell held when set was called.
C2_FunctionalUpdate ==
    (SetDone /\ last.arg \in UpdateFns) =>
        /\ Call(last.arg, last.prev).kind = "return"
        /\ AtomGet(last.atom) = Call(last.arg, last.prev).value

\* C2 witness: set(prev => prev + 1) on a cell holding 1 left it holding 2.
C2_Witness ==
    /\ SetDone /\ last.arg = Inc /\ last.atom = "countAtom"
    /\ last.prev = Num(1) /\ sig["countAtom"] = Num(2)

\* C3: while no set has been called on a cell created with v, the cell holds
\* v and every get() and useAtom read of it returns v, whatever kind of value
\* v is.
C3_InitialValue ==
    \A a \in Atoms :
        pristine[a] /= Undefined =>
            /\ AtomGet(a) = pristine[a]
            /\ (last.op \in {"get", "useAtom"} /\ last.atom = a) => last.ret = pristine[a]

\* C3 witness: get() on a never-written cell created with a pending
\* computation returned that pending computation.
C3_Witness ==
    /\ last.op = "get" /\ last.atom = "asyncAtom"
    /\ pristine["asyncAtom"] = Pending("A") /\ last.ret = Pending("A")

\* C4 (as stated): after a set whose update function raised, the cell holds
\* the value it held before the call.
C4_RaiseKeepsPrior ==
    (last.op = "set" /\ last.outcome = "raised") => AtomGet(last.atom) = last.prev

\* C4 (amended): a set whose update function raised ends raised at its caller
\* and assigns nothing: the cell holds the value it held before the call,
\* or, when the update function itself wrote to the cell before raising, the
\* value of its last such write.
C4_RaiseAssignsNothing ==
    (last.op = "set" /\ last.outcome = "raised") =>
        /\ running = NoFrame
        /\ AtomGet(last.atom) = (IF last.inner = Undefined THEN last.prev ELSE last.inner)

\* C4 witness: an update function raised without writing to the cell, and the
\* cell holds its prior value.
C4_Witness ==
    /\ last.op = "set" /\ last.outcome = "raised" /\ last.arg = Boom
    /\ last.inner = Undefined /\ AtomGet(last.atom) = last.prev

\* C5: useAtom(cell) returns cell.get() as of the call, paired with the cell's
\* own set: invoking that setter with any argument is the step cell.set makes
\* with the same argument.
C5_UseAtomPair ==
    [][ /\ last'.op = "useAtom" =>
              /\ last'.ret = AtomGet(last'.atom)
              /\ holder'[last'.by] = last'.atom
        /\ \A c \in Components :
              (Idle /\ last'.op = "set" /\ last'.by = c) =>
                  AtomSet(Body(c).atom, last'.arg, c)
      ]_vars

\* C5 witness: Counter, having called useAtom, invoked the setter with an
\* update function.
C5_Witness ==
    /\ holder["Counter"] = "countAtom"
    /\ last.op = "set" /\ last.by = "Counter" /\ last.arg = Inc /\ last.outcome = "running"

\* C6 (as stated): every completed set call notifies the cell's observers, so
\* each of them is scheduled afterwards.
C6_EverySetNotifies ==
    [][ (last'.op = "set" /\ last'.outcome = "done") =>
            targets[last'.atom] \subseteq dirty' ]_vars

\* C6 (amended): a completed set call notifies the cell's observers exactly
\* when the value it installs is not identical to the stored one; a set that
\* installs the stored value again schedules nobody.
C6_SetNotifiesOnChange ==
    [][ (last'.op = "set" /\ last'.outcome = "done") =>
            dirty' = (IF sig'[last'.atom] /= sig[last'.atom]
                      THEN dirty \cup targets[last'.atom]
                      ELSE dirty) ]_vars

\* C6 witness: a set installed the value already stored while a subscribed
\* component was not scheduled, and it still is not.
C6_Witness ==
    /\ SetDone /\ ~last.changed /\ last.atom = "countAtom"
    /\ "Counter" \in targets["countAtom"] /\ "Counter" \notin dirty

\* C7: once a component has called useAtom(cell), every completed set that
\* changes the cell's value is eventually followed by a render of that
\* component; Counter and Badge subscribe to the same cell.
C7_ChangeLeadsToRender ==
    \A c \in {"Counter", "Badge"} :
        (holder[c] /= NoSetter /\ SetDone /\ last.changed /\ last.atom = Body(c).atom)
            ~> (last.op = "useAtom" /\ last.by = c)

\* C7 witness: both subscribers are scheduled after one of them changed the
\* cell through its setter.
C7_Witness ==
    /\ holder["Counter"] /= NoSetter /\ holder["Badge"] /= NoSetter
    /\ SetDone /\ last.changed /\ last.by = "Badge" /\ last.atom = "countAtom"
    /\ {"Counter", "Badge"} \subseteq dirty

\* C8 (as stated): the stored value changes only in a step of set.
C8_OnlySetWrites ==
    [][ \A a \in Atoms : sig'[a] /= sig[a] => (last'.op = "set" /\ last'.atom = a) ]_vars

\* C8 (amended): the stored value changes only in a step of set or in a write
\* to the value of the signal the cell exposes; get and useAtom never change it.
C8_OnlySetOrSignalWrites ==
    [][ \A a \in Atoms :
            sig'[a] /= sig[a] => (last'.op \in {"set", "signal.value="} /\ last'.atom = a)
      ]_vars

\* C8 witness: a write to the exposed signal changed the stored value.
C8_Witness == last.op = "signal.value=" /\ last.changed /\ AtomGet(last.atom) = last.arg

GetStep == last'.op = "get"

\* C9 (as stated): a get() call changes neither the stored value nor the
\* subscribers nor adds a scheduled notification.
C9_GetNoSideEffect ==
    [][ GetStep => (sig' = sig /\ targets' = targets /\ dirty' \subseteq dirty) ]_vars

\* C9 (amended): a get() call returns the stored value, leaves it unchanged
\* and schedules nobody; called while a component renders it subscribes that
\* component to the cell, and called anywhere else it leaves the subscribers
\* unchanged.
C9_GetSubscribesInRender ==
    [][ GetStep =>
            /\ sig' = sig
            /\ dirty' \subseteq dirty
            /\ last'.ret = sig[last'.atom]
            /\ targets' = (IF last'.by \in Components
                           THEN [targets EXCEPT ![last'.atom] = @ \cup {last'.by}]
                           ELSE targets) ]_vars

\* C9 witness: Loader called get() in its render and is subscribed.
C9_Witness ==
    /\ last.op = "get" /\ last.by = "Loader"
    /\ "Loader" \in targets["asyncAtom"]

\* C10 (as stated): while a set with an update function is in progress, no
\* get or set on the same cell takes effect.
C10_NothingInBetween ==
    ~(running /= NoFrame /\ last.by = "updateFn" /\ last.atom = running.atom)

\* C10 (amended): while a set with an update function is in progress, the only
\* operations that take effect are the ones the update function itself
\* issues (no other caller's, no render); a value it writes to the cell is
\* overwritten when its result is installed.
C10_OnlyOwnOperationsInBetween ==
    /\ running /= NoFrame =>
          \/ last.by = "updateFn"
          \/ /\ last.op = "set" /\ last.outcome = "running"
             /\ last.atom = running.atom /\ last.prev = running.prev
    /\ (SetDone /\ last.arg \in UpdateFns /\ last.inner /= Undefined) =>
          AtomGet(last.atom) = Call(last.arg, last.prev).value

\* C10 witness: the running update function wrote to the cell it is updating.
C10_Witness ==
    /\ running /= NoFrame /\ last.by = "updateFn" /\ last.op = "set"
    /\ last.atom = running.atom /\ running.inner = last.arg

====
